---- MODULE Spec2Model ----
(***************************************************************************)
(* A model of the segregated-free-list allocator of mm.c.                  *)
(*                                                                         *)
(* The heap is modelled word by word: mem maps every 4-byte aligned        *)
(* address of the provider region [mem_start_brk, mem_brk) to the 32-bit   *)
(* word stored there.  Headers, footers, the free-list directory and the   *)
(* prev/next links of free blocks all live in mem, exactly as in the C     *)
(* code.  The functions of mm.c are operators that take a heap image       *)
(* h = [mem, brk] and return the image the C function leaves behind.       *)
(***************************************************************************)
EXTENDS Integers, Sequences, FiniteSets, TLC

(* ------------------------------ macros ------------------------------- *)
WSIZE == 4
DSIZE == 8
CHUNKS == 32
numlists == 12
ALIGNMENT == 8

NULL == 0

\* (void *)-1, the provider's failure sentinel
SBRK_FAIL == -1

\* size_t is 32 bits wide.  A size_t value u is held as the integer (int)u:
\* u itself below 2^31, u - 2^32 from 2^31 on.
INT_MAX == 2147483647

\* a + b in 32-bit arithmetic, for 0 <= b < 2^31
add32(a, b) ==
  IF a > INT_MAX - b THEN (a - INT_MAX - 1) + (b - INT_MAX - 1) ELSE a + b

\* x & ~0x7
clear3(x) == x - (x % 8)

\* a < b, a <= b as unsigned comparisons
ult(a, b) == IF (a < 0) = (b < 0) THEN a < b ELSE b < 0

ule(a, b) == a = b \/ ult(a, b)

\* x >> 1 of a size_t
shr1(x) == IF x < 0 THEN (x + INT_MAX + 1) \div 2 + (INT_MAX \div 2 + 1) ELSE x \div 2

\* words * WSIZE in 32-bit arithmetic, for 0 <= words <= 2^30
timesWSIZE(words) ==
  IF words > INT_MAX \div WSIZE THEN WSIZE * (words - (INT_MAX \div 2 + 1)) ELSE WSIZE * words

(* ------------------------------ bounds ------------------------------- *)
\* the provider region holds at most MaxHeapDwords double words when the
\* caller goes on calling for ever
MaxHeapDwords == 17

\* and at most WideHeapDwords double words when the caller stops after
\* MaxCalls calls, mm_init included
WideHeapDwords == 25

MaxCalls == 7

\* sizes the caller asks for
ReqSizes == {0, 1, 32}

\* sizes of the calls the claims look at: those, the sizes around DSIZE, and
\* the largest sizes that are not negative as an int
CallSizes == ReqSizes \cup {DSIZE, DSIZE + 1, DSIZE + 4, INT_MAX - 7, INT_MAX}

\* the byte pattern a caller stores in its payload, seen as one word
PATTERN == 171

\* An indeterminate word: what a byte nobody has written yet holds, and what
\* a read outside the region or an overlapping copy yields.  It is carried
\* as a value of its own, different from every header, pointer and pattern.
INDETERMINATE == 3

(* --------------------------- region provider ------------------------- *)
\* first byte of the region (8-byte aligned, non-null)
mem_start_brk == 8

MAX_HEAP == DSIZE * MaxHeapDwords

WIDE_HEAP == DSIZE * WideHeapDwords

WordsOf(lo, hi) == {a \in lo..(hi - 1) : (a - lo) % WSIZE = 0}

\* mem_sbrk(incr): grows the region by incr bytes and returns the old brk,
\* or returns (void *)-1 and changes nothing.  h.max is the address the
\* region cannot grow beyond; ok = FALSE is the provider refusing before
\* that.  The fresh bytes are not initialized.
mem_sbrk(h, incr, ok) ==
  IF ~ok \/ incr < 0 \/ incr > h.max - h.brk
  THEN [h |-> h, p |-> SBRK_FAIL]
  ELSE [h |-> [mem |-> [a \in WordsOf(mem_start_brk, h.brk + incr) |->
                          IF a < h.brk THEN h.mem[a] ELSE INDETERMINATE],
               brk |-> h.brk + incr,
               max |-> h.max],
        p |-> h.brk]

(* --------------------------- word access ----------------------------- *)
\* A word read outside the region is indeterminate, and a word written
\* outside the region is not part of the heap image.  (mm.c with valid
\* arguments does neither, except for the reads noted at mm_realloc.)
GET(h, f) == IF f \in DOMAIN h.mem THEN h.mem[f] ELSE INDETERMINATE

PUT(h, f, val) == IF f \in DOMAIN h.mem THEN [h EXCEPT !.mem[f] = val] ELSE h

\* size | alloc for a one-bit alloc
PACK(size, alloc) == size - (size % 2) + (IF size % 2 = 1 \/ alloc = 1 THEN 1 ELSE 0)

GET_SIZE(h, p) == GET(h, p) - (GET(h, p) % 8)

GET_ALLOC(h, p) == GET(h, p) % 2

HDRP(bp) == bp - WSIZE

FTRP(h, bp) == bp + GET_SIZE(h, HDRP(bp)) - DSIZE

NEXT_BLKP(h, bp) == bp + GET_SIZE(h, bp - WSIZE)

PREV_BLKP(h, bp) == bp - GET_SIZE(h, bp - DSIZE)

GET_NPTR(h, bp) == GET(h, bp + WSIZE)

GET_PPTR(h, bp) == GET(h, bp)

\* address of the directory slot of list listnum
freelistslot(flp, listnum) == flp + 4 * listnum

GETfreelistp(h, flp, listnum) == GET(h, freelistslot(flp, listnum))

\* ((size) + (ALIGNMENT-1)) & ~0x7
ALIGN(size) == clear3(add32(size, ALIGNMENT - 1))

\* on size_t operands
MAX(x, y) == IF ult(y, x) THEN x ELSE y

(* ------------------------- segregated index -------------------------- *)
\* the loop  while ((num < numlists-1) && (bsize > 1)) { bsize >>= 1; num++; }
RECURSIVE seglistnum(_, _)
seglistnum(num, bsize) ==
  IF num < numlists - 1 /\ ult(1, bsize) THEN seglistnum(num + 1, shr1(bsize)) ELSE num

\* ADD_free that links bp before the old head but leaves the directory head
\* pointing at the old head
ADD_free_head_not_moved(h, flp, bp, size) ==
  LET num == seglistnum(0, size)
      l_ptr == GETfreelistp(h, flp, num)
  IN IF l_ptr # NULL
     THEN PUT(PUT(PUT(h, bp + WSIZE, l_ptr), bp, NULL), l_ptr, bp)
     ELSE PUT(PUT(PUT(h, freelistslot(flp, num), bp), bp + WSIZE, l_ptr), bp, NULL)

ADD_free(h, flp, bp, size) ==
  LET num == seglistnum(0, size)
      l_ptr == GETfreelistp(h, flp, num)
  IN IF l_ptr # NULL
     THEN PUT(PUT(PUT(PUT(h, bp + WSIZE, l_ptr), bp, NULL), l_ptr, bp),
              freelistslot(flp, num), bp)
     ELSE PUT(PUT(PUT(h, freelistslot(flp, num), bp), bp + WSIZE, l_ptr), bp, NULL)

\* deletefree that, unlinking the head of a list, leaves the new head's
\* previous pointer on the unlinked block
deletefree_keeps_prev(h, flp, bp) ==
  LET num == seglistnum(0, GET_SIZE(h, HDRP(bp)))
  IN IF GET_PPTR(h, bp) # NULL
     THEN IF GET_NPTR(h, bp) # NULL
          THEN LET h1 == PUT(h, GET_PPTR(h, bp) + WSIZE, GET_NPTR(h, bp))
               IN PUT(h1, GET_NPTR(h1, bp), GET_PPTR(h1, bp))
          ELSE PUT(h, GET_PPTR(h, bp) + WSIZE, NULL)
     ELSE PUT(h, freelistslot(flp, num), GET_NPTR(h, bp))

deletefree(h, flp, bp) ==
  LET num == seglistnum(0, GET_SIZE(h, HDRP(bp)))
  IN IF GET_PPTR(h, bp) # NULL
     THEN IF GET_NPTR(h, bp) # NULL
          THEN LET h1 == PUT(h, GET_PPTR(h, bp) + WSIZE, GET_NPTR(h, bp))
               IN PUT(h1, GET_NPTR(h1, bp), GET_PPTR(h1, bp))
          ELSE PUT(h, GET_PPTR(h, bp) + WSIZE, NULL)
     ELSE IF GET_NPTR(h, bp) # NULL
          THEN LET h1 == PUT(h, freelistslot(flp, num), GET_NPTR(h, bp))
               IN PUT(h1, GET_NPTR(h1, bp), NULL)
          ELSE PUT(h, freelistslot(flp, num), GET_NPTR(h, bp))

(* ----------------------------- placement ----------------------------- *)
\* place from its if statement on: h0 is the heap after deletefree(bp),
\* csize the size of the block read on entry
place_tags(h0, flp, bp, asize, csize) ==
  IF ule(2 * DSIZE, csize - asize)   \* size_t operands
  THEN LET h1 == PUT(h0, HDRP(bp), PACK(asize, 1))
           h2 == PUT(h1, FTRP(h1, bp), PACK(asize, 1))
           fin == NEXT_BLKP(h2, bp)
           h3 == PUT(h2, HDRP(fin), PACK(csize - asize, 0))
           h4 == PUT(h3, FTRP(h3, fin), PACK(csize - asize, 0))
       IN ADD_free(h4, flp, fin, csize - asize)
  ELSE LET h1 == PUT(h0, HDRP(bp), PACK(csize, 1))
       IN PUT(h1, FTRP(h1, bp), PACK(csize, 1))

\* place that marks the block allocated but leaves it on its free list
place_keeps_listed(h, flp, bp, asize) ==
  place_tags(h, flp, bp, asize, GET_SIZE(h, HDRP(bp)))

\* place that splits as soon as the remainder is DSIZE bytes
place_splits_small(h, flp, bp, asize) ==
  LET csize == GET_SIZE(h, HDRP(bp))
      h0 == deletefree(h, flp, bp)
  IN IF ule(DSIZE, csize - asize)
     THEN LET h1 == PUT(h0, HDRP(bp), PACK(asize, 1))
              h2 == PUT(h1, FTRP(h1, bp), PACK(asize, 1))
              fin == NEXT_BLKP(h2, bp)
              h3 == PUT(h2, HDRP(fin), PACK(csize - asize, 0))
              h4 == PUT(h3, FTRP(h3, fin), PACK(csize - asize, 0))
          IN ADD_free(h4, flp, fin, csize - asize)
     ELSE LET h1 == PUT(h0, HDRP(bp), PACK(csize, 1))
          IN PUT(h1, FTRP(h1, bp), PACK(csize, 1))

place(h, flp, bp, asize) ==
  place_tags(deletefree(h, flp, bp), flp, bp, asize, GET_SIZE(h, HDRP(bp)))

\* the for loop of find_fit; a list never holds more blocks than the region
\* has double words, so the fuel only cuts a walk that would never end
RECURSIVE find_fit_walk(_, _, _, _)
find_fit_walk(h, bp, size, fuel) ==
  IF bp = NULL \/ fuel = 0 THEN NULL
  ELSE IF ule(size, GET_SIZE(h, HDRP(bp))) THEN bp
  ELSE find_fit_walk(h, GET_NPTR(h, bp), size, fuel - 1)

\* find_fit that goes on to the lists of the larger classes when the list
\* of its own class has no block that fits
RECURSIVE find_fit_from(_, _, _, _)
find_fit_from(h, flp, size, num) ==
  IF num >= numlists THEN NULL
  ELSE IF find_fit_walk(h, GETfreelistp(h, flp, num), size, MaxHeapDwords + 1) # NULL
  THEN find_fit_walk(h, GETfreelistp(h, flp, num), size, MaxHeapDwords + 1)
  ELSE find_fit_from(h, flp, size, num + 1)

find_fit_falls_through(h, flp, size) ==
  find_fit_from(h, flp, size, seglistnum(0, size))

find_fit(h, flp, size) ==
  find_fit_walk(h, GETfreelistp(h, flp, seglistnum(0, size)), size, MaxHeapDwords + 1)

(* ----------------------------- coalescing ---------------------------- *)
\* The three merging branches of coalesce from their second statement on,
\* each followed by the closing ADD_free: h1 is the heap after the
\* deletefree calls of the branch, blocksize the size read on entry.
\* Each yields the heap image and the pointer coalesce returns.
coalesce_prev(h1, flp, bp, blocksize) ==
  LET bs == blocksize + GET_SIZE(h1, HDRP(PREV_BLKP(h1, bp)))
      h2 == PUT(h1, HDRP(PREV_BLKP(h1, bp)), PACK(bs, 0))
      h3 == PUT(h2, FTRP(h2, bp), PACK(bs, 0))
      nbp == PREV_BLKP(h3, bp)
  IN [h |-> ADD_free(h3, flp, nbp, bs), bp |-> nbp]

coalesce_next(h1, flp, bp, blocksize) ==
  LET bs == blocksize + GET_SIZE(h1, HDRP(NEXT_BLKP(h1, bp)))
      h2 == PUT(h1, HDRP(bp), PACK(bs, 0))
      h3 == PUT(h2, FTRP(h2, bp), PACK(bs, 0))
  IN [h |-> ADD_free(h3, flp, bp, bs), bp |-> bp]

coalesce_both(h1, flp, bp, blocksize) ==
  LET bs == blocksize + GET_SIZE(h1, FTRP(h1, NEXT_BLKP(h1, bp)))
                      + GET_SIZE(h1, HDRP(PREV_BLKP(h1, bp)))
      h2 == PUT(h1, HDRP(PREV_BLKP(h1, bp)), PACK(bs, 0))
      h3 == PUT(h2, FTRP(h2, NEXT_BLKP(h2, bp)), PACK(bs, 0))
      nbp == PREV_BLKP(h3, bp)
  IN [h |-> ADD_free(h3, flp, nbp, bs), bp |-> nbp]

\* deletefree(NEXT_BLKP(bp))
deletefree_next(h, flp, bp) == deletefree(h, flp, NEXT_BLKP(h, bp))

\* coalesce that puts the block on its list without looking at its neighbours
coalesce_no_merge(h, flp, bp) ==
  [h |-> ADD_free(h, flp, bp, GET_SIZE(h, HDRP(bp))), bp |-> bp]

\* returns the heap image and the pointer coalesce returns
coalesce(h, flp, bp) ==
  LET blocksize == GET_SIZE(h, HDRP(bp))
      p_status == GET_ALLOC(h, HDRP(PREV_BLKP(h, bp)))
      n_status == GET_ALLOC(h, HDRP(NEXT_BLKP(h, bp)))
  IN IF n_status = 1 /\ p_status = 1
     THEN [h |-> ADD_free(h, flp, bp, blocksize), bp |-> bp]
     ELSE IF n_status = 1 /\ p_status = 0
     THEN coalesce_prev(deletefree(h, flp, PREV_BLKP(h, bp)), flp, bp, blocksize)
     ELSE IF p_status = 1 /\ n_status = 0
     THEN coalesce_next(deletefree_next(h, flp, bp), flp, bp, blocksize)
     ELSE coalesce_both(deletefree_next(deletefree(h, flp, PREV_BLKP(h, bp)), flp, bp),
                        flp, bp, blocksize)

\* extend_heap that writes the new free block and no new epilogue header
extend_heap_block_no_epilogue(h1, flp, bp, size) ==
  coalesce(PUT(PUT(h1, HDRP(bp), PACK(size, 0)), bp + size - DSIZE, PACK(size, 0)),
           flp, bp)

(* --------------------------- heap extension -------------------------- *)
\* extend_heap after a successful mem_sbrk: h1 is the grown heap, bp the
\* first new byte
extend_heap_block(h1, flp, bp, size) ==
  LET h2 == PUT(h1, HDRP(bp), PACK(size, 0))
      h3 == PUT(h2, FTRP(h2, bp), PACK(size, 0))
      h4 == PUT(h3, HDRP(NEXT_BLKP(h3, bp)), PACK(0, 1))
  IN coalesce(h4, flp, bp)

\* returns the heap image and the block pointer (NULL when the provider fails)
extend_heap(h, flp, words, ok) ==
  LET size == IF words % 2 = 1 THEN timesWSIZE(words + 1) ELSE timesWSIZE(words)
      r == mem_sbrk(h, size, ok)
  IN IF r.p = SBRK_FAIL
     THEN [h |-> h, bp |-> NULL]
     ELSE extend_heap_block(r.h, flp, r.p, MAX(size, 16))

(* ------------------------------ mm_init ------------------------------ *)
\* the loop  for (num = 0; num < numlists; num++) GETfreelistp(freelist_p, num) = NULL;
RECURSIVE clearlists(_, _, _)
clearlists(h, flp, num) ==
  IF num < numlists THEN clearlists(PUT(h, freelistslot(flp, num), NULL), flp, num + 1) ELSE h

\* the return statements of mm_init after extend_heap (e is its result)
mm_init_return(e, flp, hlp) ==
  [h |-> e.h, freelist_p |-> flp, heap_listp |-> hlp,
   ret |-> IF e.bp = NULL THEN -1 ELSE 0, undef |-> FALSE]

\* mm_init without the alignment padding word in front of the prologue
mm_init_no_padding(h, ok1, ok2, ok3) ==
  LET r1 == mem_sbrk(h, numlists * WSIZE, ok1)
      flp == r1.p
  IN IF flp = SBRK_FAIL
     THEN [h |-> h, freelist_p |-> flp, heap_listp |-> NULL, ret |-> -1, undef |-> TRUE]
     ELSE
     LET r2 == mem_sbrk(clearlists(r1.h, flp, 0), 3 * WSIZE, ok2)
         hlp == r2.p
     IN IF hlp = SBRK_FAIL
        THEN [h |-> clearlists(r1.h, flp, 0), freelist_p |-> flp, heap_listp |-> hlp,
              ret |-> -1, undef |-> FALSE]
        ELSE
        LET h3 == PUT(r2.h, hlp, PACK(DSIZE, 1))
            h4 == PUT(h3, hlp + (1 * WSIZE), PACK(DSIZE, 1))
            h5 == PUT(h4, hlp + (2 * WSIZE), PACK(0, 1))
        IN mm_init_return(extend_heap(h5, flp, CHUNKS \div WSIZE, ok3),
                          flp, hlp + (1 * WSIZE))

\* ok1, ok2, ok3: whether the provider grants the three requests of mm_init.
\* The result of the first request is used unchecked: when it is the
\* sentinel, the directory is cleared through (void *)-1 (undef).
mm_init(h, ok1, ok2, ok3) ==
  LET r1 == mem_sbrk(h, numlists * WSIZE, ok1)
      flp == r1.p
  IN IF flp = SBRK_FAIL
     THEN [h |-> h, freelist_p |-> flp, heap_listp |-> NULL, ret |-> -1, undef |-> TRUE]
     ELSE
     LET r2 == mem_sbrk(clearlists(r1.h, flp, 0), 4 * WSIZE, ok2)
         hlp == r2.p
     IN IF hlp = SBRK_FAIL
        THEN [h |-> clearlists(r1.h, flp, 0), freelist_p |-> flp, heap_listp |-> hlp,
              ret |-> -1, undef |-> FALSE]
        ELSE
        LET h2 == PUT(r2.h, hlp, 0)
            h3 == PUT(h2, hlp + (1 * WSIZE), PACK(DSIZE, 1))
            h4 == PUT(h3, hlp + (2 * WSIZE), PACK(DSIZE, 1))
            h5 == PUT(h4, hlp + (3 * WSIZE), PACK(0, 1))
        IN mm_init_return(extend_heap(h5, flp, CHUNKS \div WSIZE, ok3),
                          flp, hlp + (2 * WSIZE))

(* ----------------------------- mm_malloc ----------------------------- *)
\* a block size that leaves no room for the header and the footer
adjusted_size_no_overhead(size) ==
  IF ule(size, DSIZE) THEN 2 * DSIZE
  ELSE clear3(add32(size, DSIZE - 1))

\* the block size mm_malloc computes for a request of size bytes
\* (DSIZE * (x / DSIZE) is x & ~0x7)
adjusted_size(size) ==
  IF ule(size, DSIZE) THEN 2 * DSIZE
  ELSE clear3(add32(add32(size, DSIZE), DSIZE - 1))

\* mm_malloc after extend_heap (e is its result)
mm_malloc_extended(e, flp, asize) ==
  IF e.bp = NULL
  THEN [h |-> e.h, ret |-> NULL, refused |-> TRUE]
  ELSE [h |-> place(e.h, flp, e.bp, asize), ret |-> e.bp, refused |-> FALSE]

\* mm_malloc after find_fit (bp is its result)
mm_malloc_fit(h, flp, bp, asize, ok) ==
  IF bp # NULL
  THEN [h |-> place(h, flp, bp, asize), ret |-> bp, refused |-> FALSE]
  ELSE mm_malloc_extended(
         extend_heap(h, flp, shr1(shr1(MAX(asize, CHUNKS))), ok),   \* extendsize/WSIZE
         flp, asize)

\* returns the heap image, the returned pointer, and whether the provider
\* was asked for memory and refused
mm_malloc(h, flp, size, ok) ==
  IF size = 0 THEN [h |-> h, ret |-> NULL, refused |-> FALSE]
  ELSE mm_malloc_fit(h, flp, find_fit(h, flp, adjusted_size(size)), adjusted_size(size), ok)

(* ------------------------------ mm_free ------------------------------ *)
\* mm_free that clears the allocation bit of the header only
mm_free_header_only(h, flp, ptr) ==
  IF ptr = NULL THEN h
  ELSE LET blocksize == GET_SIZE(h, HDRP(ptr))
           h2 == PUT(h, HDRP(ptr), PACK(blocksize, 0))
       IN coalesce(h2, flp, ptr).h

mm_free(h, flp, ptr) ==
  IF ptr = NULL THEN h
  ELSE LET blocksize == GET_SIZE(h, HDRP(ptr))
           h1 == PUT(h, FTRP(h, ptr), PACK(blocksize, 0))
           h2 == PUT(h1, HDRP(ptr), PACK(blocksize, 0))
       IN coalesce(h2, flp, ptr).h

\* memcpy with source and destination exchanged: n bytes are written at src
memcpy_swapped(h, dst, src, n) ==
  [h EXCEPT !.mem = [a \in DOMAIN h.mem |->
      IF a >= src /\ a < src + n
      THEN LET from == dst + (a - src)
           IN IF from >= h.brk \/ (from >= src /\ from < src + n)
              THEN INDETERMINATE
              ELSE GET(h, from)
      ELSE h.mem[a]]]

(* ----------------------------- mm_realloc ---------------------------- *)
\* memcpy(dst, src, n), word by word.  A source word beyond the region, and
\* a source word that lies in the destination (the copy is then undefined),
\* leave an indeterminate word.
memcpy(h, dst, src, n) ==
  [h EXCEPT !.mem = [a \in DOMAIN h.mem |->
      IF a >= dst /\ a < dst + n
      THEN LET from == src + (a - dst)
           IN IF from >= h.brk \/ (from >= dst /\ from < dst + n)
              THEN INDETERMINATE
              ELSE GET(h, from)
      ELSE h.mem[a]]]

\* the last branch of mm_realloc after its mm_malloc call (r is its result),
\* freeing the old block also when the allocation has failed
realloc_copy_frees_anyway(r, flp, ptr, newbsize) ==
  IF r.ret = NULL
  THEN [h |-> mm_free(r.h, flp, ptr), ret |-> NULL, refused |-> r.refused]
  ELSE [h |-> mm_free(memcpy(r.h, r.ret, ptr, newbsize), flp, ptr),
        ret |-> r.ret, refused |-> FALSE]

\* the last branch of mm_realloc after its mm_malloc call (r is its result),
\* freeing the old block before its contents are copied
realloc_copy_frees_first(r, flp, ptr, newbsize) ==
  IF r.ret = NULL
  THEN [h |-> r.h, ret |-> NULL, refused |-> r.refused]
  ELSE [h |-> memcpy(mm_free(r.h, flp, ptr), r.ret, ptr, newbsize),
        ret |-> r.ret, refused |-> FALSE]

\* the last branch of mm_realloc after its mm_malloc call (r is its result):
\* copy, free
realloc_copy(r, flp, ptr, newbsize) ==
  IF r.ret = NULL
  THEN [h |-> r.h, ret |-> NULL, refused |-> r.refused]
  ELSE [h |-> mm_free(memcpy(r.h, r.ret, ptr, newbsize), flp, ptr),
        ret |-> r.ret, refused |-> FALSE]

\* the shrinking branch of mm_realloc
realloc_shrink(h, flp, ptr, newbsize, oldbsize) ==
  IF oldbsize - newbsize <= 2 * DSIZE
  THEN [h |-> h, ret |-> ptr, refused |-> FALSE]
  ELSE LET h1 == PUT(h, HDRP(ptr), PACK(newbsize, 1))
           h2 == PUT(h1, FTRP(h1, ptr), PACK(newbsize, 1))
           fin == NEXT_BLKP(h2, ptr)
           h3 == PUT(h2, HDRP(fin), PACK(oldbsize - newbsize, 0))
           h4 == PUT(h3, FTRP(h3, fin), PACK(oldbsize - newbsize, 0))
       IN [h |-> ADD_free(h4, flp, fin, oldbsize - newbsize),
           ret |-> ptr, refused |-> FALSE]

\* the growing-in-place branch of mm_realloc from its second statement on:
\* h1 is the heap after deletefree(NEXT_BLKP(bp)), oldbsize the size of the
\* block and newoldbsize its size with the next block, both read on entry
realloc_grow(h1, flp, ptr, newbsize, oldbsize, newoldbsize) ==
  LET blocksize == oldbsize + GET_SIZE(h1, HDRP(NEXT_BLKP(h1, ptr)))
      h2 == PUT(h1, HDRP(ptr), PACK(blocksize, 0))
      h3 == PUT(h2, FTRP(h2, ptr), PACK(blocksize, 0))
  IN IF newoldbsize - newbsize < 2 * DSIZE
     THEN LET h4 == PUT(h3, HDRP(ptr), PACK(newoldbsize, 1))
          IN [h |-> PUT(h4, FTRP(h4, ptr), PACK(newoldbsize, 1)),
              ret |-> ptr, refused |-> FALSE]
     ELSE LET h4 == PUT(h3, HDRP(ptr), PACK(newbsize, 1))
              h5 == PUT(h4, FTRP(h4, ptr), PACK(newbsize, 1))
              fin == NEXT_BLKP(h5, ptr)
              h6 == PUT(h5, HDRP(fin), PACK(newoldbsize - newbsize, 0))
              h7 == PUT(h6, FTRP(h6, fin), PACK(newoldbsize - newbsize, 0))
          IN [h |-> ADD_free(h7, flp, fin, newoldbsize - newbsize),
              ret |-> ptr, refused |-> FALSE]

\* mm_realloc from the comparison of the two sizes on, growing in place
\* without taking the next block off its free list
realloc_sizes_next_stays_listed(h, flp, ptr, newbsize, oldbsize, ok) ==
  IF newbsize = oldbsize
  THEN [h |-> h, ret |-> ptr, refused |-> FALSE]
  ELSE IF ult(newbsize, oldbsize)
  THEN realloc_shrink(h, flp, ptr, newbsize, oldbsize)
  ELSE IF GET_ALLOC(h, HDRP(NEXT_BLKP(h, ptr))) = 0
          /\ ule(newbsize, oldbsize + GET_SIZE(h, HDRP(NEXT_BLKP(h, ptr))))
  THEN realloc_grow(h, flp, ptr, newbsize, oldbsize,
                    oldbsize + GET_SIZE(h, HDRP(NEXT_BLKP(h, ptr))))
  ELSE realloc_copy(mm_malloc(h, flp, newbsize, ok), flp, ptr, newbsize)

\* mm_realloc from the comparison of the two sizes on
realloc_sizes(h, flp, ptr, newbsize, oldbsize, ok) ==
  IF newbsize = oldbsize
  THEN [h |-> h, ret |-> ptr, refused |-> FALSE]
  ELSE IF ult(newbsize, oldbsize)
  THEN realloc_shrink(h, flp, ptr, newbsize, oldbsize)
  ELSE IF GET_ALLOC(h, HDRP(NEXT_BLKP(h, ptr))) = 0
          /\ ule(newbsize, oldbsize + GET_SIZE(h, HDRP(NEXT_BLKP(h, ptr))))
  THEN realloc_grow(deletefree_next(h, flp, ptr), flp, ptr, newbsize, oldbsize,
                    oldbsize + GET_SIZE(h, HDRP(NEXT_BLKP(h, ptr))))
  ELSE realloc_copy(mm_malloc(h, flp, newbsize, ok), flp, ptr, newbsize)

\* mm_realloc that treats a size of zero like a negative one: it returns
\* NULL and leaves the block alone
mm_realloc_zero_keeps(h, flp, ptr, size0, ok) ==
  IF ALIGN(size0) <= 0
  THEN [h |-> h, ret |-> NULL, refused |-> FALSE]
  ELSE realloc_sizes(h, flp, ptr, add32(ALIGN(size0), DSIZE), GET_SIZE(h, HDRP(ptr)), ok)

\* mm_realloc for ptr # NULL.  Returns the heap image, the returned pointer,
\* and whether the provider was asked for memory and refused.
mm_realloc(h, flp, ptr, size0, ok) ==
  IF ALIGN(size0) < 0      \* (int)size < 0
  THEN [h |-> h, ret |-> NULL, refused |-> FALSE]
  ELSE IF ALIGN(size0) = 0
  THEN [h |-> mm_free(h, flp, ptr), ret |-> NULL, refused |-> FALSE]
  ELSE realloc_sizes(h, flp, ptr, add32(ALIGN(size0), DSIZE), GET_SIZE(h, HDRP(ptr)), ok)

\* mm_realloc for ptr = NULL once its mm_malloc call has returned r: before
\* it tests ptr, mm_realloc has read the header word at HDRP(ptr), an
\* address below the region (undef)
realloc_null_return(r, h) ==
  [h |-> r.h, ret |-> r.ret, refused |-> r.refused,
   undef |-> HDRP(NULL) \notin DOMAIN h.mem]

\* mm_realloc for ptr = NULL: size is aligned before it is passed on
mm_realloc_null(h, flp, size0, ok) ==
  realloc_null_return(mm_malloc(h, flp, ALIGN(size0), ok), h)

(* ------------------------------ mm_check ----------------------------- *)
\* the inner for loop over one free list, testing the allocation bit of the
\* listed block only and not that of its physical neighbours
RECURSIVE check_list_free_bit_only(_, _, _)
check_list_free_bit_only(h, bp, fuel) ==
  IF bp = NULL \/ fuel = 0 THEN [n |-> 0, ok |-> TRUE]
  ELSE LET rest == check_list_free_bit_only(h, GET_NPTR(h, bp), fuel - 1)
       IN [n |-> rest.n + 1, ok |-> rest.ok /\ GET_ALLOC(h, HDRP(bp)) = 0]

\* the inner for loop over one free list: [n |-> blocks seen, ok |-> no test failed]
RECURSIVE check_list(_, _, _)
check_list(h, bp, fuel) ==
  IF bp = NULL \/ fuel = 0 THEN [n |-> 0, ok |-> TRUE]
  ELSE LET rest == check_list(h, GET_NPTR(h, bp), fuel - 1)
           p_status == GET_ALLOC(h, HDRP(PREV_BLKP(h, bp)))
           n_status == GET_ALLOC(h, HDRP(NEXT_BLKP(h, bp)))
       IN [n |-> rest.n + 1,
           ok |-> rest.ok /\ GET_ALLOC(h, HDRP(bp)) = 0
                          /\ ~(p_status = 0 \/ n_status = 0)]

\* the outer for loop over the numlists lists
RECURSIVE check_lists(_, _, _)
check_lists(h, flp, seglist) ==
  IF seglist >= numlists THEN [n |-> 0, ok |-> TRUE]
  ELSE LET one == check_list(h, GETfreelistp(h, flp, seglist), MaxHeapDwords + 1)
           rest == check_lists(h, flp, seglist + 1)
       IN [n |-> one.n + rest.n, ok |-> one.ok /\ rest.ok]

\* the while loop walking the heap from the prologue to the epilogue
RECURSIVE check_heap(_, _, _)
check_heap(h, blockpointer, c) ==
  IF GET_SIZE(h, HDRP(blockpointer)) = 0 THEN [n |-> 0, ok |-> TRUE]
  ELSE LET rest == check_heap(h, NEXT_BLKP(h, blockpointer), c + 1)
       IN [n |-> rest.n + (IF GET_ALLOC(h, HDRP(blockpointer)) = 0 THEN 1 ELSE 0),
           ok |-> rest.ok
                  /\ ~(FTRP(h, blockpointer) > HDRP(NEXT_BLKP(h, blockpointer)))
                  /\ ~(c > 0 /\ GET_SIZE(h, HDRP(blockpointer)) < 16)]

mm_check(h, flp, hlp) ==
  LET lists == check_lists(h, flp, 0)
      heap == check_heap(h, hlp, 0)
  IN IF lists.ok /\ heap.ok /\ heap.n = lists.n THEN 1 ELSE 0

(* --------------------------- the state machine ----------------------- *)
VARIABLES
  mem,         \* the words of the provider region, by address
  mem_brk,     \* first byte after the region
  mem_max_addr,\* the address the region cannot grow beyond
  freelist_p,  \* address of the free-list directory
  heap_listp,  \* payload pointer of the prologue block
  status,      \* "uninit", "ready", "init_failed" or "undefined"
  live,        \* the caller's live pointers, each with the size it asked for
  calls_left   \* the calls the caller still makes; negative: it never stops

vars == <<mem, mem_brk, mem_max_addr, freelist_p, heap_listp, status, live, calls_left>>

Heap == [mem |-> mem, brk |-> mem_brk, max |-> mem_max_addr]

\* the caller makes one more call
called ==
  /\ calls_left # 0
  /\ calls_left' = IF calls_left > 0 THEN calls_left - 1 ELSE calls_left
  /\ UNCHANGED mem_max_addr

\* live without p
drop(l, p) == [q \in DOMAIN l \ {p} |-> l[q]]

\* live with p allocated for n bytes
take(l, p, n) == [q \in DOMAIN l \cup {p} |-> IF q = p THEN n ELSE l[q]]

\* the caller stores its pattern in the n bytes at p that it asked for
store(m, p, n) ==
  IF p = NULL THEN m
  ELSE [a \in DOMAIN m |-> IF a >= p /\ a < p + n THEN PATTERN ELSE m[a]]

\* a small region and a caller that never stops, or a wider region and a
\* caller that makes MaxCalls calls
Init ==
  /\ \/ mem_max_addr = mem_start_brk + MAX_HEAP /\ calls_left = -1
     \/ mem_max_addr = mem_start_brk + WIDE_HEAP /\ calls_left = MaxCalls
  /\ mem = [a \in {} |-> 0]
  /\ mem_brk = mem_start_brk
  /\ freelist_p = NULL
  /\ heap_listp = NULL
  /\ status = "uninit"
  /\ live = [a \in {} |-> 0]

MmInit ==
  /\ status = "uninit"
  /\ called
  /\ \E ok1 \in BOOLEAN, ok2 \in BOOLEAN, ok3 \in BOOLEAN :
       \E r \in {mm_init(Heap, ok1, ok2, ok3)} :
          /\ mem' = r.h.mem
          /\ mem_brk' = r.h.brk
          /\ freelist_p' = r.freelist_p
          /\ heap_listp' = r.heap_listp
          /\ status' = IF r.undef THEN "undefined"
                       ELSE IF r.ret = 0 THEN "ready" ELSE "init_failed"
          /\ UNCHANGED live

Malloc ==
  /\ status = "ready"
  /\ called
  /\ \E n \in ReqSizes, ok \in BOOLEAN :
       \E r \in {mm_malloc(Heap, freelist_p, n, ok)} :
          /\ ok \/ r.refused   \* the provider's answer matters only when it is asked
          /\ mem' = store(r.h.mem, r.ret, n)
          /\ mem_brk' = r.h.brk
          /\ live' = IF r.ret = NULL THEN live ELSE take(live, r.ret, n)
          /\ UNCHANGED <<freelist_p, heap_listp, status>>

Free ==
  /\ status = "ready"
  /\ called
  /\ \E p \in DOMAIN live \cup {NULL} :
       \E h \in {mm_free(Heap, freelist_p, p)} :
          /\ mem' = h.mem
          /\ mem_brk' = h.brk
          /\ live' = drop(live, p)
          /\ UNCHANGED <<freelist_p, heap_listp, status>>

Realloc ==
  /\ status = "ready"
  /\ called
  /\ \E p \in DOMAIN live, n \in ReqSizes, ok \in BOOLEAN :
       \E r \in {mm_realloc(Heap, freelist_p, p, n, ok)} :
          /\ ok \/ r.refused
          /\ mem' = store(r.h.mem, r.ret, n)
          /\ mem_brk' = r.h.brk
          /\ live' = IF r.ret # NULL THEN take(drop(live, p), r.ret, n)
                     ELSE IF ALIGN(n) = 0 THEN drop(live, p)
                     ELSE live
          /\ UNCHANGED <<freelist_p, heap_listp, status>>

\* mm_realloc(NULL, n) reads the header word at NULL - WSIZE, outside the
\* region, before it tests ptr: the read faults and the process is gone
\* with its heap, or it is harmless and the call goes on to return
\* mm_malloc(size) with size already aligned
ReallocNull ==
  /\ status = "ready"
  /\ called
  /\ \E n \in ReqSizes, ok \in BOOLEAN, faults \in BOOLEAN :
       \E r \in {mm_realloc_null(Heap, freelist_p, n, ok)} :
          IF r.undef /\ faults
          THEN /\ status' = "undefined"
               /\ mem' = [a \in {} |-> 0]
               /\ mem_brk' = mem_start_brk
               /\ live' = [a \in {} |-> 0]
               /\ UNCHANGED <<freelist_p, heap_listp>>
          ELSE /\ ok \/ r.refused
               /\ mem' = store(r.h.mem, r.ret, n)
               /\ mem_brk' = r.h.brk
               /\ live' = IF r.ret = NULL THEN live ELSE take(live, r.ret, n)
               /\ UNCHANGED <<freelist_p, heap_listp, status>>

Next == MmInit \/ Malloc \/ Free \/ Realloc \/ ReallocNull

Spec == Init /\ [][Next]_vars

(* ---------------------- the vocabulary of the claims ------------------ *)
Ready == status = "ready"

InRegion(h, a) == a \in DOMAIN h.mem

\* The payload pointers met when stepping from bp by the sizes in the headers,
\* up to a zero-size header; the walk also stops where it would leave the region.
RECURSIVE BlocksFrom(_, _, _)
BlocksFrom(h, bp, fuel) ==
  IF fuel = 0 \/ ~InRegion(h, HDRP(bp)) \/ GET_SIZE(h, HDRP(bp)) = 0 THEN <<>>
  ELSE <<bp>> \o BlocksFrom(h, NEXT_BLKP(h, bp), fuel - 1)

\* the blocks of the payload region, in address order (prologue excluded)
HeapBlocks(h, hlp) == BlocksFrom(h, hlp + DSIZE, MaxHeapDwords + 1)

Range(seq) == {seq[i] : i \in DOMAIN seq}

\* the walk from the prologue ends at the epilogue header, the last word of
\* the region, and every block lies inside the region
ReachesEpilogue(h, hlp) ==
  LET bs == HeapBlocks(h, hlp)
      end == IF bs = <<>> THEN hlp + DSIZE ELSE NEXT_BLKP(h, bs[Len(bs)])
  IN /\ HDRP(end) = h.brk - WSIZE
     /\ InRegion(h, HDRP(end))
     /\ GET(h, HDRP(end)) = 1

IsFree(h, bp) == GET_ALLOC(h, HDRP(bp)) = 0

FreeBlocks(h, hlp) == {bp \in Range(HeapBlocks(h, hlp)) : IsFree(h, bp)}

\* the blocks met when following next links from bp
RECURSIVE ListFrom(_, _, _)
ListFrom(h, bp, fuel) ==
  IF bp = NULL \/ fuel = 0 \/ ~InRegion(h, bp) \/ ~InRegion(h, bp + WSIZE) THEN <<>>
  ELSE <<bp>> \o ListFrom(h, GET_NPTR(h, bp), fuel - 1)

\* free list k, from its head
FreeList(h, flp, k) == ListFrom(h, GETfreelistp(h, flp, k), MaxHeapDwords + 1)

Lists == 0..(numlists - 1)

\* 2^k
RECURSIVE Pow2(_)
Pow2(k) == IF k = 0 THEN 1 ELSE 2 * Pow2(k - 1)

\* the integer log2 of s, clamped at numlists - 1
Log2Class(s) ==
  CHOOSE k \in Lists :
    /\ Pow2(k) <= s
    /\ k < numlists - 1 => s < Pow2(k + 1)

\* the byte ranges [p, p + n) and [q, q + m) do not overlap
Disjoint(p, n, q, m) == p + n <= q \/ q + m <= p

(* ------------------------------ claims ------------------------------- *)

\* C1: from a freshly initialized heap, after every call in any sequence of
\* allocate / free / reallocate calls with valid arguments, mm_check()
\* returns nonzero.
C1_CheckerAlwaysPasses ==
  Ready => mm_check(Heap, freelist_p, heap_listp) = 1

\* C3: invariant I4: between public operations no two physically adjacent
\* blocks of the heap are both free.
C3_NoAdjacentFree ==
  Ready =>
    LET bs == HeapBlocks(Heap, heap_listp)
    IN \A i \in 1..(Len(bs) - 1) : ~(IsFree(Heap, bs[i]) /\ IsFree(Heap, bs[i + 1]))

\* the caller's ranges [p, p + l[p]) lie in the region and are pairwise disjoint
LiveRangesOK(h, l) ==
  \A p \in DOMAIN l :
    /\ p >= mem_start_brk
    /\ p + l[p] <= h.brk
    /\ \A q \in DOMAIN l : q # p => Disjoint(p, l[p], q, l[q])

\* C2: in every reachable state the byte ranges [p, p + requested_size_p) of
\* the live allocations are pairwise disjoint and lie inside [base, brk);
\* in particular no call returns a pointer that is live already.
C2_LiveRangesDisjoint ==
  Ready =>
    /\ LiveRangesOK(Heap, live)
    /\ \A n \in CallSizes, ok \in BOOLEAN :
         LET r == mm_malloc(Heap, freelist_p, n, ok)
         IN r.ret # NULL => /\ r.ret \notin DOMAIN live
                            /\ LiveRangesOK(r.h, take(live, r.ret, n))
    /\ \A p \in DOMAIN live, n \in CallSizes, ok \in BOOLEAN :
         LET r == mm_realloc(Heap, freelist_p, p, n, ok)
         IN r.ret # NULL => /\ r.ret \notin DOMAIN live \ {p}
                            /\ LiveRangesOK(r.h, take(drop(live, p), r.ret, n))

\* two live allocations in physically adjacent blocks, the first using
\* every payload byte of its block
C2_Witness ==
  /\ Ready
  /\ \E p \in DOMAIN live, q \in DOMAIN live :
       /\ q = NEXT_BLKP(Heap, p)
       /\ live[p] + DSIZE = GET_SIZE(Heap, HDRP(p))

\* the blocks on all the free lists from list k on, list after list
RECURSIVE ListedFrom(_, _, _)
ListedFrom(h, flp, k) ==
  IF k >= numlists THEN <<>> ELSE FreeList(h, flp, k) \o ListedFrom(h, flp, k + 1)

\* C4: invariant I5/P5: the blocks reachable from the 12 free-list heads are
\* exactly the blocks a walk of the heap from the prologue to the epilogue
\* finds with alloc_bit == 0; no block is listed twice, so the two counts agree.
C4_ListsMatchHeap ==
  Ready =>
    LET listed == ListedFrom(Heap, freelist_p, 0)
        free == FreeBlocks(Heap, heap_listp)
    IN /\ ReachesEpilogue(Heap, heap_listp)
       /\ Range(listed) = free
       /\ Len(listed) = Cardinality(free)

\* free blocks on two different lists, next to live allocations
C4_Witness ==
  /\ Ready
  /\ DOMAIN live # {}
  /\ \E j \in Lists, k \in Lists :
       /\ j # k
       /\ FreeList(Heap, freelist_p, j) # <<>>
       /\ FreeList(Heap, freelist_p, k) # <<>>

\* seq without its element b
Without(seq, b) == SelectSeq(seq, LAMBDA x : x # b)

\* list k of heap image h is a well-formed doubly-linked list of blocks of class k
ListWellFormed(h, flp, k) ==
  LET seq == FreeList(h, flp, k)
  IN /\ seq # <<>> => /\ GET_PPTR(h, seq[1]) = NULL
                      /\ GET_NPTR(h, seq[Len(seq)]) = NULL
     /\ \A i \in 1..(Len(seq) - 1) : GET_PPTR(h, seq[i + 1]) = seq[i]
     /\ Cardinality(Range(seq)) = Len(seq)
     /\ \A i \in DOMAIN seq : Log2Class(GET_SIZE(h, HDRP(seq[i]))) = k

\* C5: invariant I7: each of the 12 free lists is a well-formed, acyclic
\* doubly-linked list (head's prev null, x.next.prev == x, last next null)
\* whose blocks all have class(size) == k, class being the integer log2 of
\* the size clamped at 11; so deletefree unlinks a block from the list it is on.
C5_ListsWellFormed ==
  Ready =>
    \A k \in Lists :
      /\ ListWellFormed(Heap, freelist_p, k)
      /\ \A i \in DOMAIN FreeList(Heap, freelist_p, k) :
           LET b == FreeList(Heap, freelist_p, k)[i]
               h == deletefree(Heap, freelist_p, b)
           IN \A j \in Lists :
                /\ FreeList(h, freelist_p, j) =
                     IF j = k THEN Without(FreeList(Heap, freelist_p, k), b)
                     ELSE FreeList(Heap, freelist_p, j)
                /\ ListWellFormed(h, freelist_p, j)

\* a free list with three blocks: a head, a block between two blocks, a tail
C5_Witness ==
  /\ Ready
  /\ \E k \in Lists : Len(FreeList(Heap, freelist_p, k)) >= 3

\* C6: invariant I1: every block of the heap, allocated or free, has a
\* footer word identical to its header word.
C6_HeaderEqualsFooter ==
  Ready =>
    /\ ReachesEpilogue(Heap, heap_listp)
    /\ GET(Heap, HDRP(heap_listp)) = GET(Heap, FTRP(Heap, heap_listp))
    /\ \A bp \in Range(HeapBlocks(Heap, heap_listp)) :
         /\ InRegion(Heap, FTRP(Heap, bp))
         /\ GET(Heap, HDRP(bp)) = GET(Heap, FTRP(Heap, bp))

\* blocks have been split and a block has been kept whole: a free block lies
\* between two allocated ones, and one live block has at least 8 bytes more
\* than its request needs
C6_Witness ==
  /\ Ready
  /\ LET bs == HeapBlocks(Heap, heap_listp)
     IN /\ \E i \in 2..(Len(bs) - 1) :
             /\ IsFree(Heap, bs[i])
             /\ ~IsFree(Heap, bs[i - 1])
             /\ ~IsFree(Heap, bs[i + 1])
        /\ \E p \in DOMAIN live :
             GET_SIZE(Heap, HDRP(p)) >= ALIGN(live[p]) + DSIZE + DSIZE

\* C7: invariant I2: every block between the prologue and the epilogue has
\* size >= 16 and size divisible by 8; no split by place or reallocate
\* creates an allocated part or a free remainder smaller than 16 bytes.
C7_BlockSizes ==
  Ready =>
    /\ ReachesEpilogue(Heap, heap_listp)
    /\ \A bp \in Range(HeapBlocks(Heap, heap_listp)) :
         \* the size as stored: the header word without its allocation bit
         LET size == GET(Heap, HDRP(bp)) - GET_ALLOC(Heap, HDRP(bp))
         IN size >= 16 /\ size % 8 = 0

\* a split has left a free remainder of exactly 16 bytes behind an
\* allocated part of exactly 16 bytes
C7_Witness ==
  /\ Ready
  /\ \E p \in DOMAIN live :
       /\ GET_SIZE(Heap, HDRP(p)) = 16
       /\ IsFree(Heap, NEXT_BLKP(Heap, p))
       /\ GET_SIZE(Heap, HDRP(NEXT_BLKP(Heap, p))) = 16

\* C8: every non-null pointer returned by allocate and by reallocate, after
\* any sequence of prior operations, is 8-byte aligned (the region's base
\* address being 8-byte aligned).
C8_Aligned ==
  Ready =>
    /\ mem_start_brk % 8 = 0
    /\ \A p \in DOMAIN live : p % 8 = 0
    /\ \A n \in CallSizes, ok \in BOOLEAN :
         LET r == mm_malloc(Heap, freelist_p, n, ok)
         IN r.ret # NULL => r.ret % 8 = 0
    /\ \A p \in DOMAIN live, n \in CallSizes, ok \in BOOLEAN :
         LET r == mm_realloc(Heap, freelist_p, p, n, ok)
         IN r.ret # NULL => r.ret % 8 = 0

\* the heap has been extended after initialisation, a pointer beyond the
\* initial chunk is live, and reallocate returns a block other than the one
\* it was given
C8_Witness ==
  /\ Ready
  /\ \E p \in DOMAIN live : p > mem_start_brk + (numlists + 4) * WSIZE + CHUNKS
  /\ \E p \in DOMAIN live, n \in ReqSizes :
       mm_realloc(Heap, freelist_p, p, n, TRUE).ret \notin {NULL, p}

\* asize as the specification gives it: 16 for n <= 8, else n + 8 rounded
\* up to a multiple of 8
SpecAsize(n) == IF n <= 8 THEN 16 ELSE 8 * ((n + 8 + 7) \div 8)

\* C9: for every n > 0 for which the provider does not fail, allocate(n)
\* returns the payload pointer of a block marked allocated whose size s
\* satisfies asize <= s < asize + 16 (asize = 16 if n <= 8, else n + 8
\* rounded up to 8), so the payload s - 8 is at least n; allocate(0)
\* returns null and leaves the heap unchanged.
C9_AllocateResult ==
  Ready =>
    \A n \in CallSizes, ok \in BOOLEAN :
      LET r == mm_malloc(Heap, freelist_p, n, ok)
          s == GET_SIZE(r.h, HDRP(r.ret))
      IN IF n = 0
         THEN r.ret = NULL /\ r.h = Heap
         ELSE ~r.refused =>
                /\ r.ret # NULL
                /\ r.ret \in Range(HeapBlocks(r.h, heap_listp))
                /\ GET_ALLOC(r.h, HDRP(r.ret)) = 1
                /\ GET(r.h, FTRP(r.h, r.ret)) = GET(r.h, HDRP(r.ret))
                /\ SpecAsize(n) <= s
                /\ s < SpecAsize(n) + 16
                /\ s - 8 >= n

\* allocate takes a whole free block that is larger than asize (no split),
\* and in the same state splits a block for another request
C9_Witness ==
  /\ Ready
  /\ \E n \in ReqSizes :
       LET r == mm_malloc(Heap, freelist_p, n, TRUE)
       IN /\ r.ret # NULL
          /\ r.h.brk = mem_brk
          /\ GET_SIZE(r.h, HDRP(r.ret)) = SpecAsize(n) + 8
  /\ \E n \in ReqSizes :
       LET r == mm_malloc(Heap, freelist_p, n, TRUE)
       IN /\ r.ret # NULL
          /\ GET_SIZE(r.h, HDRP(r.ret)) = SpecAsize(n)
          /\ IsFree(r.h, NEXT_BLKP(r.h, r.ret))

\* C10: when the provider refuses growth during allocate(n), or during
\* reallocate(p, n) on its allocate-copy-free path, the call returns null
\* and every header, footer, free-list link, directory head and the region
\* size are as before the call; for reallocate the block of p is still
\* allocated with its contents intact.
C10_RefusalLeavesHeap ==
  Ready =>
    /\ \A n \in CallSizes, ok \in BOOLEAN :
         LET r == mm_malloc(Heap, freelist_p, n, ok)
         IN r.refused => r.ret = NULL /\ r.h = Heap
    /\ \A p \in DOMAIN live, n \in CallSizes, ok \in BOOLEAN :
         LET r == mm_realloc(Heap, freelist_p, p, n, ok)
         IN r.refused =>
              /\ r.ret = NULL
              /\ r.h = Heap
              /\ GET_ALLOC(r.h, HDRP(p)) = 1
              /\ \A a \in DOMAIN mem : a >= p /\ a < p + live[p] => r.h.mem[a] = PATTERN

\* the provider refuses an allocate and a reallocate while free blocks are
\* on the lists
C10_Witness ==
  /\ Ready
  /\ FreeBlocks(Heap, heap_listp) # {}
  /\ \E n \in ReqSizes : mm_malloc(Heap, freelist_p, n, FALSE).refused
  /\ \E p \in DOMAIN live, n \in ReqSizes :
       mm_realloc(Heap, freelist_p, p, n, FALSE).refused

\* C11: init() returns 0 when every growth request it makes to the region
\* provider succeeds, and returns -1 whenever any of the three requests
\* (directory, prologue/epilogue, initial extension) fails, without reading
\* or writing through the failed request's sentinel result.
C11_InitResult ==
  status = "uninit" =>
    \A ok1 \in BOOLEAN, ok2 \in BOOLEAN, ok3 \in BOOLEAN :
      LET r == mm_init(Heap, ok1, ok2, ok3)
      IN /\ ~r.undef
         /\ r.ret = IF ok1 /\ ok2 /\ ok3 THEN 0 ELSE -1

\* sizes that are negative when read as an int: 0x80000000, 0xFFFFFFF8,
\* 0xFFFFFFF9 and 0xFFFFFFFF
NegSizes == {-INT_MAX - 1, -8, -7, -1}

\* C12: reallocate(null, n) is equivalent to allocate(n): for every heap
\* state and every n it returns the same pointer and leaves the heap in the
\* same state as allocate(n) would, and it reads no block header through
\* the null pointer.
C12_ReallocNullIsAllocate ==
  Ready =>
    \A n \in CallSizes, ok \in BOOLEAN :
      LET r == mm_realloc_null(Heap, freelist_p, n, ok)
          m == mm_malloc(Heap, freelist_p, n, ok)
      IN /\ ~r.undef
         /\ r.ret = m.ret
         /\ r.h = m.h

\* the block in front of block p in the heap walk bs, NULL when p is the
\* first block behind the prologue
PrevBlock(bs, p) ==
  IF \E i \in 2..Len(bs) : bs[i] = p
  THEN bs[(CHOOSE i \in 2..Len(bs) : bs[i] = p) - 1]
  ELSE NULL

\* the physical neighbours of block p are free
FreePrev(h, hlp, p) ==
  /\ PrevBlock(HeapBlocks(h, hlp), p) # NULL
  /\ IsFree(h, PrevBlock(HeapBlocks(h, hlp), p))

FreeNext(h, p) == IsFree(h, NEXT_BLKP(h, p))

\* where the block that free(p) leaves starts and ends in heap image h
MergedStart(h, hlp, p) ==
  IF FreePrev(h, hlp, p) THEN PrevBlock(HeapBlocks(h, hlp), p) ELSE p

MergedEnd(h, p) ==
  IF FreeNext(h, p) THEN NEXT_BLKP(h, NEXT_BLKP(h, p)) ELSE NEXT_BLKP(h, p)

\* in h2 the block of p, merged with the neighbours that were free in h, is
\* one free block on the list of its size class
FreedInto(h, h2, flp, hlp, p) ==
  LET b == MergedStart(h, hlp, p)
      size == MergedEnd(h, p) - b
  IN /\ b \in FreeBlocks(h2, hlp)
     /\ GET_SIZE(h2, HDRP(b)) = size
     /\ GET(h2, FTRP(h2, b)) = GET(h2, HDRP(b))
     /\ b \in Range(FreeList(h2, flp, Log2Class(size)))

\* C13: for a live pointer p, reallocate(p, 0) returns null and has exactly
\* the effect of free(p): p's block becomes free, is coalesced with its free
\* physical neighbours and the result is on the free list of its size class.
C13_ReallocZeroFrees ==
  Ready =>
    \A p \in DOMAIN live, ok \in BOOLEAN :
      LET r == mm_realloc(Heap, freelist_p, p, 0, ok)
      IN /\ r.ret = NULL
         /\ r.h = mm_free(Heap, freelist_p, p)
         /\ FreedInto(Heap, r.h, freelist_p, heap_listp, p)

\* reallocate(p, 0) is called on a live block that lies between two free
\* blocks
C13_Witness ==
  /\ Ready
  /\ \E p \in DOMAIN live :
       /\ FreePrev(Heap, heap_listp, p)
       /\ FreeNext(Heap, p)
       /\ mm_realloc(Heap, freelist_p, p, 0, TRUE).ret = NULL

\* C14: for a live pointer p and every size n whose 32-bit signed
\* interpretation is negative (0x80000000 .. 0xFFFFFFFF), reallocate(p, n)
\* returns null and p remains valid: p's block is still allocated with the
\* same size and contents and the heap is unchanged.
C14_NegativeSizeKeepsBlock ==
  Ready =>
    \A p \in DOMAIN live, n \in NegSizes, ok \in BOOLEAN :
      LET r == mm_realloc(Heap, freelist_p, p, n, ok)
      IN /\ r.ret = NULL
         /\ r.h = Heap
         /\ GET(r.h, HDRP(p)) = PACK(GET_SIZE(Heap, HDRP(p)), 1)
         /\ \A a \in DOMAIN mem : a >= p /\ a < p + live[p] => r.h.mem[a] = PATTERN

\* in heap image h the block of p is allocated with size bytes, header
\* equal to footer
AllocatedWith(h, p, size) ==
  /\ GET(h, HDRP(p)) = PACK(size, 1)
  /\ GET(h, FTRP(h, p)) = PACK(size, 1)

\* in heap image h a free block of size bytes starts at payload address b
\* and is on the list of its size class
FreeRemainder(h, flp, hlp, b, size) ==
  /\ b \in FreeBlocks(h, hlp)
  /\ GET(h, HDRP(b)) = PACK(size, 0)
  /\ GET(h, FTRP(h, b)) = PACK(size, 0)
  /\ b \in Range(FreeList(h, flp, Log2Class(size)))

\* C15: shrink in place: for a live p with current = size(p) and
\* required = align8(n) + 8 < current, reallocate(p, n) returns p; if
\* current - required < 16 the block is kept whole and the heap is
\* unchanged, otherwise (current - required >= 16, including exactly 16)
\* p's block is shrunk to exactly required bytes and the trailing
\* current - required bytes become a free block inserted into its size class.
C15_ShrinkInPlace ==
  Ready =>
    \A p \in DOMAIN live, n \in CallSizes, ok \in BOOLEAN :
      LET current == GET_SIZE(Heap, HDRP(p))
          required == ALIGN(n) + 8
          r == mm_realloc(Heap, freelist_p, p, n, ok)
      IN (n > 0 /\ n < current /\ required < current) =>
           /\ r.ret = p
           /\ IF current - required < 16
              THEN r.h = Heap
              ELSE /\ AllocatedWith(r.h, p, required)
                   /\ FreeRemainder(r.h, freelist_p, heap_listp,
                                    p + required, current - required)

\* the sizes of CallSizes that a block of the region can hold
SmallSizes == {n \in CallSizes : n > 0 /\ n <= MAX_HEAP}

\* the words of the payload of block p in heap image h
PayloadWords(h, p) == {a \in DOMAIN h.mem : a >= p /\ a < FTRP(h, p)}

\* C16: grow in place: for a live p with required = align8(n) + 8 > size(p),
\* if the next physical block is free and size(p) + size(next) >= required,
\* then reallocate(p, n) returns p itself, the next block is removed from its
\* free list, p's payload bytes are unchanged, and p's block ends up
\* allocated with size required plus a free remainder on its class list when
\* the merged size minus required is >= 16, or with the whole merged size
\* otherwise.
C16_GrowInPlace ==
  Ready =>
    \A p \in DOMAIN live, n \in SmallSizes, ok \in BOOLEAN :
      LET current == GET_SIZE(Heap, HDRP(p))
          required == ALIGN(n) + 8
          next == NEXT_BLKP(Heap, p)
          merged == current + GET_SIZE(Heap, HDRP(next))
          r == mm_realloc(Heap, freelist_p, p, n, ok)
      IN (required > current /\ FreeNext(Heap, p) /\ merged >= required) =>
           /\ r.ret = p
           /\ next \notin Range(ListedFrom(r.h, freelist_p, 0))
           /\ \A a \in PayloadWords(Heap, p) : r.h.mem[a] = mem[a]
           /\ IF merged - required >= 16
              THEN /\ AllocatedWith(r.h, p, required)
                   /\ FreeRemainder(r.h, freelist_p, heap_listp,
                                    p + required, merged - required)
              ELSE AllocatedWith(r.h, p, merged)

\* a live block is followed by a free block with which it grows in place
\* leaving a free remainder for one size, and taking the whole merged block
\* for another
C16_Witness ==
  /\ Ready
  /\ \E p \in DOMAIN live, n \in SmallSizes, m \in SmallSizes :
       LET current == GET_SIZE(Heap, HDRP(p))
           merged == current + GET_SIZE(Heap, HDRP(NEXT_BLKP(Heap, p)))
       IN /\ FreeNext(Heap, p)
          /\ ALIGN(n) + 8 > current
          /\ merged - (ALIGN(n) + 8) >= 16
          /\ ALIGN(m) + 8 > current
          /\ merged >= ALIGN(m) + 8
          /\ merged - (ALIGN(m) + 8) < 16
          /\ mm_realloc(Heap, freelist_p, p, n, TRUE).ret = p
          /\ mm_realloc(Heap, freelist_p, p, m, TRUE).ret = p

\* block p of heap image h cannot grow in place to required bytes
CannotGrow(h, p, required) ==
  \/ ~FreeNext(h, p)
  \/ GET_SIZE(h, HDRP(p)) + GET_SIZE(h, HDRP(NEXT_BLKP(h, p))) < required

\* C17: allocate-copy-free: for a live p whose block cannot be grown in
\* place (next block allocated, or size(p) + size(next) < required) and with
\* the provider succeeding, reallocate(p, n) returns a pointer q # p to an
\* allocated block of capacity >= n whose first min(n, old payload size)
\* bytes equal the bytes that were stored at p, and afterwards p's old block
\* is free (coalesced and on a free list).
C17_AllocateCopyFree ==
  Ready =>
    \A p \in DOMAIN live, n \in SmallSizes, ok \in BOOLEAN :
      LET current == GET_SIZE(Heap, HDRP(p))
          required == ALIGN(n) + 8
          r == mm_realloc(Heap, freelist_p, p, n, ok)
          q == r.ret
      IN (required > current /\ CannotGrow(Heap, p, required) /\ ~r.refused) =>
           /\ q \notin {NULL, p}
           /\ q \in Range(HeapBlocks(r.h, heap_listp))
           /\ GET_ALLOC(r.h, HDRP(q)) = 1
           /\ GET_SIZE(r.h, HDRP(q)) - DSIZE >= n
           \* required > current makes the old payload the shorter of the two
           /\ \A a \in PayloadWords(Heap, p) :
                a - p < n => GET(r.h, q + (a - p)) = mem[a]
           \* the neighbours of p are those it has once q is allocated
           /\ FreedInto(mm_malloc(Heap, freelist_p, required, ok).h, r.h,
                        freelist_p, heap_listp, p)

\* reallocate moves a block into memory obtained from the provider, and in
\* another call moves a block into a free block that was on a list
C17_Witness ==
  /\ Ready
  /\ \E p \in DOMAIN live, n \in SmallSizes :
       LET r == mm_realloc(Heap, freelist_p, p, n, TRUE)
       IN /\ ALIGN(n) + 8 > GET_SIZE(Heap, HDRP(p))
          /\ CannotGrow(Heap, p, ALIGN(n) + 8)
          /\ r.ret \notin {NULL, p}
          /\ r.h.brk > mem_brk
  /\ \E p \in DOMAIN live, n \in SmallSizes :
       LET r == mm_realloc(Heap, freelist_p, p, n, TRUE)
       IN /\ ALIGN(n) + 8 > GET_SIZE(Heap, HDRP(p))
          /\ CannotGrow(Heap, p, ALIGN(n) + 8)
          /\ r.ret \notin {NULL, p}
          /\ r.h.brk = mem_brk

\* C18: round-trip to empty: from a fresh initialized heap, after any
\* sequence of allocate and reallocate calls followed by freeing every live
\* allocation (in any order), the heap contains exactly one free block, which
\* spans the whole payload region between the prologue and the epilogue (its
\* size equals all bytes obtained through heap extension), and no allocated
\* block other than the sentinels.
C18_RoundTripToEmpty ==
  (Ready /\ DOMAIN live = {}) =>
    LET bs == HeapBlocks(Heap, heap_listp)
    IN /\ Len(bs) = 1
       /\ IsFree(Heap, bs[1])
       /\ HDRP(bs[1]) = heap_listp + WSIZE
       /\ GET_SIZE(Heap, HDRP(bs[1])) = (mem_brk - WSIZE) - HDRP(bs[1])

\* the invariants I1 to I7 of a heap image h
I1(h, hlp) ==
  /\ GET(h, HDRP(hlp)) = GET(h, FTRP(h, hlp))
  /\ \A bp \in Range(HeapBlocks(h, hlp)) :
       InRegion(h, FTRP(h, bp)) /\ GET(h, HDRP(bp)) = GET(h, FTRP(h, bp))

I2(h, hlp) ==
  \A bp \in Range(HeapBlocks(h, hlp)) :
    LET size == GET(h, HDRP(bp)) - GET_ALLOC(h, HDRP(bp))
    IN size >= 16 /\ size % 8 = 0

I3(h, hlp) == GET(h, HDRP(hlp)) = PACK(DSIZE, 1) /\ ReachesEpilogue(h, hlp)

I4(h, hlp) ==
  LET bs == HeapBlocks(h, hlp)
  IN \A i \in 1..(Len(bs) - 1) : ~(IsFree(h, bs[i]) /\ IsFree(h, bs[i + 1]))

I5(h, flp, hlp) ==
  /\ Range(ListedFrom(h, flp, 0)) = FreeBlocks(h, hlp)
  /\ Len(ListedFrom(h, flp, 0)) = Cardinality(FreeBlocks(h, hlp))

I6(h, hlp) ==
  \A bp \in {hlp} \cup Range(HeapBlocks(h, hlp)) : FTRP(h, bp) < HDRP(NEXT_BLKP(h, bp))

I7(h, flp) == \A k \in Lists : ListWellFormed(h, flp, k)

AllInvariants(h, flp, hlp) ==
  /\ I1(h, hlp) /\ I2(h, hlp) /\ I3(h, hlp) /\ I4(h, hlp)
  /\ I5(h, flp, hlp) /\ I6(h, hlp) /\ I7(h, flp)

\* h with the allocation bit of the word at address a inverted
FlipAlloc(h, a) ==
  PUT(h, a, IF GET_ALLOC(h, a) = 1 THEN GET(h, a) - 1 ELSE GET(h, a) + 1)

\* the heap states mm_check is given: h itself, and h with the allocation
\* bit of one header or of one footer inverted (what a write through a stray
\* pointer leaves)
Images(h, hlp) ==
  {h} \cup {FlipAlloc(h, HDRP(bp)) : bp \in Range(HeapBlocks(h, hlp))}
      \cup {FlipAlloc(h, FTRP(h, bp)) : bp \in Range(HeapBlocks(h, hlp))}

\* the four tests of mm_check, stated on the lists and on the heap walk
CheckerTests(h, flp, hlp) ==
  LET listed == ListedFrom(h, flp, 0)
  IN /\ \A bp \in Range(listed) : GET_ALLOC(h, HDRP(bp)) = 0
     /\ \A bp \in Range(listed) :
          /\ GET_ALLOC(h, HDRP(PREV_BLKP(h, bp))) = 1
          /\ GET_ALLOC(h, HDRP(NEXT_BLKP(h, bp))) = 1
     /\ \A bp \in {hlp} \cup Range(HeapBlocks(h, hlp)) :
          FTRP(h, bp) <= HDRP(NEXT_BLKP(h, bp))
     /\ \A bp \in Range(HeapBlocks(h, hlp)) : GET_SIZE(h, HDRP(bp)) >= 16
     /\ Len(listed) = Cardinality(FreeBlocks(h, hlp))

\* C19 as stated: check() returns nonzero iff all invariants hold: for every
\* heap state, mm_check returns 1 exactly when the invariants I1 to I7 all
\* hold, and returns 0 when any one of them is violated.
C19_CheckerIffInvariants ==
  Ready =>
    \A h \in Images(Heap, heap_listp) :
      mm_check(h, freelist_p, heap_listp) = 1
        <=> AllInvariants(h, freelist_p, heap_listp)

\* C19 as amended: mm_check returns 1 exactly when its four tests pass (every
\* listed block is free, both physical neighbours of every listed block are
\* allocated, the heap walk finds no footer above the next header and no
\* block after the prologue below 16 bytes, and as many free blocks as the
\* lists hold); in the heap states the public operations reach this is
\* exactly when I1 to I7 all hold, but header and footer are never compared.
C19_CheckerTests ==
  Ready =>
    /\ mm_check(Heap, freelist_p, heap_listp) = 1
         <=> AllInvariants(Heap, freelist_p, heap_listp)
    /\ \A h \in Images(Heap, heap_listp) :
         mm_check(h, freelist_p, heap_listp) = 1
           <=> CheckerTests(h, freelist_p, heap_listp)

\* mm_check passes a heap in which a footer differs from its header, fails
\* a heap in which an allocated block has its header marked free, and fails
\* the heap a shrinking reallocate has left with two adjacent free blocks
C19_Witness ==
  /\ Ready
  /\ \E h \in Images(Heap, heap_listp) :
       mm_check(h, freelist_p, heap_listp) = 1 /\ ~I1(h, heap_listp)
  /\ \E h \in Images(Heap, heap_listp) \ {Heap} :
       mm_check(h, freelist_p, heap_listp) = 0
  /\ \E p \in DOMAIN live, n \in ReqSizes :
       LET r == mm_realloc(Heap, freelist_p, p, n, TRUE)
       IN ~I4(r.h, heap_listp) /\ mm_check(r.h, freelist_p, heap_listp) = 0

\* the physical neighbours of p that are free in heap image h
FreeNeighbours(h, hlp, p) ==
  (IF FreePrev(h, hlp, p) THEN {PrevBlock(HeapBlocks(h, hlp), p)} ELSE {})
    \cup (IF FreeNext(h, p) THEN {NEXT_BLKP(h, p)} ELSE {})

RECURSIVE SumSizes(_, _)
SumSizes(h, S) ==
  IF S = {} THEN 0
  ELSE LET b == CHOOSE x \in S : TRUE
       IN GET_SIZE(h, HDRP(b)) + SumSizes(h, S \ {b})

\* C20: free(p) on a live p marks the block free and coalesces it in one
\* step with exactly its free physical neighbours: the resulting free block
\* starts at prev if prev was free (else at p), ends at the end of next if
\* next was free (else at the end of p), its size is the sum of the sizes of
\* the merged blocks, every merged neighbour is removed from its free list,
\* the result is at the head of the list of its new size class, and the
\* number of free blocks changes by 1 minus the number of free neighbours.
C20_FreeCoalesces ==
  Ready =>
    \A p \in DOMAIN live :
      LET h2 == mm_free(Heap, freelist_p, p)
          merged == FreeNeighbours(Heap, heap_listp, p)
          start == MergedStart(Heap, heap_listp, p)
          size == MergedEnd(Heap, p) - start
      IN /\ size = SumSizes(Heap, merged \cup {p})
         /\ GET(h2, HDRP(start)) = PACK(size, 0)
         /\ GET(h2, MergedEnd(Heap, p) - DSIZE) = PACK(size, 0)
         /\ FreeBlocks(h2, heap_listp)
              = (FreeBlocks(Heap, heap_listp) \ merged) \cup {start}
         /\ Cardinality(FreeBlocks(h2, heap_listp))
              = Cardinality(FreeBlocks(Heap, heap_listp)) + 1 - Cardinality(merged)
         /\ FreeList(h2, freelist_p, Log2Class(size))[1] = start
         /\ \A k \in Lists :
              Range(FreeList(h2, freelist_p, k))
                = (Range(FreeList(Heap, freelist_p, k)) \ merged)
                    \cup (IF k = Log2Class(size) THEN {start} ELSE {})

\* a live block lies between two free blocks of which the earlier is on the
\* list of another size class than the merged block, and free(p) leaves one
\* free block fewer
C20_Witness ==
  /\ Ready
  /\ \E p \in DOMAIN live :
       /\ Cardinality(FreeNeighbours(Heap, heap_listp, p)) = 2
       /\ Log2Class(GET_SIZE(Heap, HDRP(MergedStart(Heap, heap_listp, p))))
            # Log2Class(MergedEnd(Heap, p) - MergedStart(Heap, heap_listp, p))
       /\ Cardinality(FreeBlocks(mm_free(Heap, freelist_p, p), heap_listp))
            = Cardinality(FreeBlocks(Heap, heap_listp)) - 1

\* the block sizes allocate can ask find_fit for in the region
FitSizes == {a \in (2 * DSIZE)..WIDE_HEAP : a % DSIZE = 0}

\* the first block of list, in head-to-tail order, of at least asize bytes
FirstFit(h, list, asize) ==
  LET fits == {i \in 1..Len(list) : GET_SIZE(h, HDRP(list[i])) >= asize}
  IN IF fits = {} THEN NULL
     ELSE list[CHOOSE i \in fits : \A j \in fits : i <= j]

\* C21: find_fit(asize) returns the first block, in head-to-tail order, of
\* the single list k = class(asize) whose size is at least asize, and null
\* when that list has no such block, whatever the lists of the larger
\* classes hold; allocate then asks the provider for exactly
\* max(asize, 32) bytes: the region grows by that much and a block of at
\* least asize bytes is returned, or the provider refuses and the heap is
\* unchanged.
C21_FindFitOneClass ==
  Ready =>
    \A asize \in FitSizes :
      /\ find_fit(Heap, freelist_p, asize)
           = FirstFit(Heap, FreeList(Heap, freelist_p, Log2Class(asize)), asize)
      /\ \A n \in SmallSizes, ok \in BOOLEAN :
           (SpecAsize(n) = asize /\ find_fit(Heap, freelist_p, asize) = NULL) =>
             LET r == mm_malloc(Heap, freelist_p, n, ok)
                 grow == IF asize > 32 THEN asize ELSE 32
             IN IF ok /\ grow <= mem_max_addr - mem_brk
                THEN /\ r.h.brk = mem_brk + grow
                     /\ r.ret # NULL
                     /\ GET_SIZE(r.h, HDRP(r.ret)) >= asize
                ELSE r.ret = NULL /\ r.h = Heap

\* a free block of a larger class would hold the request, find_fit misses
\* it, and allocate grows the region by max(asize, 32) bytes
C21_Witness ==
  /\ Ready
  /\ \E n \in ReqSizes \ {0} :
       /\ \E b \in FreeBlocks(Heap, heap_listp) :
            /\ GET_SIZE(Heap, HDRP(b)) >= SpecAsize(n)
            /\ Log2Class(GET_SIZE(Heap, HDRP(b))) > Log2Class(SpecAsize(n))
       /\ find_fit(Heap, freelist_p, SpecAsize(n)) = NULL
       /\ mm_malloc(Heap, freelist_p, n, TRUE).h.brk
            = mem_brk + (IF SpecAsize(n) > 32 THEN SpecAsize(n) ELSE 32)
  /\ \E asize \in FitSizes :
       /\ find_fit(Heap, freelist_p, asize) # NULL
       /\ find_fit(Heap, freelist_p, asize)
            # FreeList(Heap, freelist_p, Log2Class(asize))[1]

\* C22: layout contiguity: between public operations the blocks tile the
\* payload region exactly: starting at the prologue and adding each block's
\* size reaches, without overlap or gap, the epilogue header, a zero-size
\* allocated word at the last word of the region (brk - 4); every block's
\* footer address is below the next block's header address, and prologue
\* and epilogue are marked allocated.
C22_BlocksTileRegion ==
  Ready =>
    LET bs == HeapBlocks(Heap, heap_listp)
        sizes == [i \in 1..Len(bs) |-> GET_SIZE(Heap, HDRP(bs[i]))]
        epilogue == mem_brk - WSIZE
    IN /\ GET(Heap, HDRP(heap_listp)) = PACK(DSIZE, 1)
       /\ GET(Heap, heap_listp) = PACK(DSIZE, 1)
       /\ GET(Heap, epilogue) = PACK(0, 1)
       /\ Len(bs) >= 1
       /\ HDRP(bs[1]) = heap_listp + WSIZE
       /\ \A i \in 1..Len(bs) :
            /\ sizes[i] > 0
            /\ HDRP(bs[i]) + sizes[i]
                 = IF i < Len(bs) THEN HDRP(bs[i + 1]) ELSE epilogue
            /\ FTRP(Heap, bs[i]) = HDRP(bs[i]) + sizes[i] - WSIZE
            /\ FTRP(Heap, bs[i]) < HDRP(NEXT_BLKP(Heap, bs[i]))
            /\ HDRP(bs[i]) > heap_listp /\ FTRP(Heap, bs[i]) < epilogue
       /\ FTRP(Heap, heap_listp) < HDRP(NEXT_BLKP(Heap, heap_listp))

\* the region has been grown by allocate and holds at least four blocks,
\* free and allocated, the last of them ending at the epilogue header
C22_Witness ==
  /\ Ready
  /\ mem_brk > mem_start_brk + (numlists + 4) * WSIZE + CHUNKS
  /\ Len(HeapBlocks(Heap, heap_listp)) >= 4
  /\ FreeBlocks(Heap, heap_listp) # {}
  /\ DOMAIN live # {}
  /\ LET bs == HeapBlocks(Heap, heap_listp)
     IN HDRP(NEXT_BLKP(Heap, bs[Len(bs)])) = mem_brk - WSIZE

\* block q is in heap image h2 what it is in heap image h: a block at the
\* same address with the same header and footer and the same payload bytes
Undisturbed(h, h2, hlp, q) ==
  /\ q \in Range(HeapBlocks(h2, hlp))
  /\ GET(h2, HDRP(q)) = GET(h, HDRP(q))
  /\ GET(h2, FTRP(h, q)) = GET(h, FTRP(h, q))
  /\ \A a \in PayloadWords(h, q) : InRegion(h2, a) /\ h2.mem[a] = h.mem[a]

\* C23: the allocator never relocates or disturbs a live block: for a live
\* allocation q, every allocate, free or reallocate call made on other
\* pointers, with the splits, coalesces, list link writes and heap
\* extensions it triggers, leaves q's address, q's header and footer and
\* every byte of q's payload unchanged.
C23_LiveBlocksUndisturbed ==
  Ready =>
    \A q \in DOMAIN live :
      /\ \A n \in CallSizes, ok \in BOOLEAN :
           /\ Undisturbed(Heap, mm_malloc(Heap, freelist_p, n, ok).h, heap_listp, q)
           /\ Undisturbed(Heap, mm_realloc_null(Heap, freelist_p, n, ok).h, heap_listp, q)
      /\ \A p \in (DOMAIN live \cup {NULL}) \ {q} :
           Undisturbed(Heap, mm_free(Heap, freelist_p, p), heap_listp, q)
      /\ \A p \in DOMAIN live \ {q}, n \in CallSizes \cup NegSizes, ok \in BOOLEAN :
           Undisturbed(Heap, mm_realloc(Heap, freelist_p, p, n, ok).h, heap_listp, q)

\* a live block q follows a live block p whose earlier neighbour is free:
\* free(p) merges p up to q's header and reallocate(p, n) moves p, copying
\* from p across q; and a live block follows a live block that
\* reallocate splits in front of it
C23_Witness ==
  /\ Ready
  /\ \E q \in DOMAIN live, p \in DOMAIN live :
       /\ q = NEXT_BLKP(Heap, p)
       /\ FreePrev(Heap, heap_listp, p)
       /\ \E n \in ReqSizes :
            mm_realloc(Heap, freelist_p, p, n, TRUE).ret \notin {NULL, p}
  /\ \E q \in DOMAIN live, p \in DOMAIN live, m \in ReqSizes :
       /\ q = NEXT_BLKP(Heap, p)
       /\ mm_realloc(Heap, freelist_p, p, m, TRUE).ret = p
       /\ IsFree(mm_realloc(Heap, freelist_p, p, m, TRUE).h, p + ALIGN(m) + DSIZE)

\* the copy of mm_realloc(p, n) takes place: the block of p can neither
\* hold required bytes nor grow in place, and mm_malloc returns a block
Copies(h, flp, p, required, ok) ==
  /\ required > GET_SIZE(h, HDRP(p))
  /\ CannotGrow(h, p, required)
  /\ mm_malloc(h, flp, required, ok).ret # NULL

\* the copy of reallocate reads no further than the footer of p's block
CopyReadsOwnBlock ==
  \A p \in DOMAIN live, n \in SmallSizes, ok \in BOOLEAN :
    Copies(Heap, freelist_p, p, ALIGN(n) + DSIZE, ok) =>
      p + ALIGN(n) + DSIZE <= FTRP(Heap, p) + WSIZE

\* the copy of reallocate reads and writes inside the region, as it is once
\* mm_malloc has returned
CopyInsideRegion ==
  \A p \in DOMAIN live, n \in SmallSizes, ok \in BOOLEAN :
    Copies(Heap, freelist_p, p, ALIGN(n) + DSIZE, ok) =>
      LET r == mm_malloc(Heap, freelist_p, ALIGN(n) + DSIZE, ok)
      IN /\ p + ALIGN(n) + DSIZE <= r.h.brk
         /\ r.ret >= mem_start_brk
         /\ r.ret + ALIGN(n) + DSIZE <= r.h.brk

\* C24: memory safety of the allocator's own accesses: in every call of
\* allocate, free or reallocate with valid arguments, reallocate(null, n)
\* included, the words the allocator reads or writes lie inside the region
\* [base, brk): the copy of reallocate's allocate-copy-free path, which reads
\* required bytes starting at p, reads at most into p's own footer and never
\* past the end of the region, and reallocate reads no header before it has
\* checked p for null.
C24_AccessesInsideRegion ==
  Ready =>
    /\ \A n \in ReqSizes, ok \in BOOLEAN :
         ~mm_realloc_null(Heap, freelist_p, n, ok).undef
    /\ CopyReadsOwnBlock
    /\ CopyInsideRegion
    /\ \A p \in DOMAIN live :
         /\ InRegion(Heap, HDRP(p)) /\ InRegion(Heap, FTRP(Heap, p))
         /\ InRegion(Heap, HDRP(NEXT_BLKP(Heap, p)))
         /\ InRegion(Heap, HDRP(PREV_BLKP(Heap, p)))

====
